---- MODULE Spec2Model ----
(***************************************************************************)
(* Model of the MFA incident simulator/detector Lambda                     *)
(* (src/lambda/simulator/handler.py) and of the incident responder Lambda  *)
(* (src/lambda/responder/handler.py), with the DynamoDB table, the SNS     *)
(* topic, the CloudWatch sink and the wall clock they share.               *)
(*                                                                         *)
(* A Python dict entry that may be missing is an option: {} when the key   *)
(* is absent, {v} when it is present with value v.                         *)
(***************************************************************************)
EXTENDS Integers, Sequences, FiniteSets, TLC

VARIABLES
    store,          \* the DynamoDB table: incident_id -> item
    now,            \* the wall clock, epoch seconds
    SNS_TOPIC_ARN,  \* environment setting read at import time
    event,          \* the event of the last simulator/detector invocation
    response,       \* what that invocation returned (or the exception it raised)
    calls,          \* the collaborator calls that invocation made, in order
    invocations,    \* number of simulator/detector invocations so far
    sns_count,      \* messages accepted by the SNS topic so far
    metric_count,   \* put_metric_data calls accepted by CloudWatch so far
    runs,           \* the responder invocations in progress: run id -> local state
    resolution      \* what the last responder invocation to finish returned

vars == <<store, now, SNS_TOPIC_ARN, event, response, calls, invocations,
          sns_count, metric_count, runs, resolution>>

---------------------------------------------------------------------------
(* Bounds *)

MaxInvocations == 2     \* simulator/detector invocations in one behaviour
MaxRuns == 2            \* responder invocations that may overlap

---------------------------------------------------------------------------
(* Python helpers *)

None == {}
Some(v) == {v}

\* dict.get(key, default)
Get(opt, default) == IF opt = {} THEN default ELSE CHOOSE v \in opt : TRUE

\* the empty dict {}
EmptyDict == [k \in {} |-> {}]

\* truth value of a str
Truthy(s) == s # ""

\* 7 * 24 * 60 * 60
SevenDays == 7 * 24 * 60 * 60

\* default of item.get('cooldown_seconds', 300) and the value simulate_rate_limiting writes
DefaultCooldown == 300

\* datetime.now(timezone.utc).isoformat() read when the clock shows t
isoformat(t) == [iso |-> t]

\* uuid.uuid4().hex : 32 lowercase hexadecimal digits
Uuid4Hex ==
    { <<"0","a","1","b","2","c","3","d","4","e","5","f","6","0","7","1",
        "8","2","9","3","a","4","b","5","c","6","d","7","e","8","f","9">>,
      <<"f","e","d","c","b","a","9","8","7","6","5","4","3","2","1","0",
        "0","1","2","3","4","5","6","7","8","9","a","b","c","d","e","f">> }

\* str.upper() on one character
UpperChar(c) ==
    CASE c = "a" -> "A" [] c = "b" -> "B" [] c = "c" -> "C"
      [] c = "d" -> "D" [] c = "e" -> "E" [] c = "f" -> "F"
      [] OTHER -> c

RECURSIVE JoinChars(_)
JoinChars(s) == IF s = <<>> THEN "" ELSE Head(s) \o JoinChars(Tail(s))

\* incident_id_of without the .upper()
incident_id_of_lowercase(prefix, u) ==
    prefix \o "-" \o JoinChars([i \in 1..8 |-> u[i]])

\* f"{prefix}-{uuid.uuid4().hex[:8].upper()}"
incident_id_of(prefix, u) ==
    prefix \o "-" \o JoinChars([i \in 1..8 |-> UpperChar(u[i])])

---------------------------------------------------------------------------
(* Environment *)

ENVIRONMENT == "dev"

TopicArn == "arn:aws:sns:us-east-1:123456789012:alerts"

---------------------------------------------------------------------------
(* Incident construction (simulator/handler.py) *)

\* The three clock reads of a constructor: datetime.now() for timestamp,
\* time.time() for created_at, time.time() again for ttl.
ClockReads(t) ==
    { r \in [ts : t..(t + 1), created : t..(t + 1), ttl : t..(t + 1)] :
        r.ts <= r.created /\ r.created <= r.ttl }

\* create_mfa_auth_failure_incident marking the incident for automatic
\* remediation after the default cooldown
create_mfa_auth_failure_incident_auto_remediation(user, source_ip, cloudtrail_detail, u, clk) ==
    [ incident_id |-> incident_id_of("MFA-AUTH", u),
      scenario |-> "mfa_auth_failure",
      severity |-> "MEDIUM",
      status |-> "OPEN",
      timestamp |-> isoformat(clk.ts),
      created_at |-> clk.created,
      user |-> user,
      source_ip |-> source_ip,
      detection_source |-> "cloudtrail",
      detection_signal |->
        [ event_name |-> "ConsoleLogin",
          event_source |-> "signin.amazonaws.com",
          error_message |-> Get(cloudtrail_detail.errorMessage, "Failed authentication"),
          event_time |-> Get(cloudtrail_detail.eventTime, ""),
          aws_region |-> Get(cloudtrail_detail.awsRegion, ""),
          additional_event_data |-> Get(cloudtrail_detail.additionalEventData, EmptyDict) ],
      description |-> "MFA authentication failure for user " \o user
                      \o " consistent with token expiration or timing issue",
      recommended_action |-> "User must re-authenticate with valid MFA token",
      auto_remediation |-> TRUE,
      cooldown_seconds |-> DefaultCooldown,
      environment |-> ENVIRONMENT,
      ttl |-> clk.ttl + SevenDays ]

create_mfa_auth_failure_incident(user, source_ip, cloudtrail_detail, u, clk) ==
    [ incident_id |-> incident_id_of("MFA-AUTH", u),
      scenario |-> "mfa_auth_failure",
      severity |-> "MEDIUM",
      status |-> "OPEN",
      timestamp |-> isoformat(clk.ts),
      created_at |-> clk.created,
      user |-> user,
      source_ip |-> source_ip,
      detection_source |-> "cloudtrail",
      detection_signal |->
        [ event_name |-> "ConsoleLogin",
          event_source |-> "signin.amazonaws.com",
          error_message |-> Get(cloudtrail_detail.errorMessage, "Failed authentication"),
          event_time |-> Get(cloudtrail_detail.eventTime, ""),
          aws_region |-> Get(cloudtrail_detail.awsRegion, ""),
          additional_event_data |-> Get(cloudtrail_detail.additionalEventData, EmptyDict) ],
      description |-> "MFA authentication failure for user " \o user
                      \o " consistent with token expiration or timing issue",
      recommended_action |-> "User must re-authenticate with valid MFA token",
      auto_remediation |-> FALSE,
      environment |-> ENVIRONMENT,
      ttl |-> clk.ttl + SevenDays ]


\* create_policy_mismatch_incident reporting a fixed error code
create_policy_mismatch_incident_fixed_code(user, source_ip, denied_action, cloudtrail_detail, u, clk) ==
    [ incident_id |-> incident_id_of("POLICY", u),
      scenario |-> "policy_mismatch",
      severity |-> "MEDIUM",
      status |-> "OPEN",
      timestamp |-> isoformat(clk.ts),
      created_at |-> clk.created,
      user |-> user,
      source_ip |-> source_ip,
      detection_source |-> "cloudtrail",
      detection_signal |->
        [ event_name |-> denied_action,
          event_source |-> Get(cloudtrail_detail.eventSource, ""),
          error_code |-> "AccessDenied",
          error_message |-> Get(cloudtrail_detail.errorMessage, ""),
          event_time |-> Get(cloudtrail_detail.eventTime, ""),
          request_parameters |-> Get(cloudtrail_detail.requestParameters, EmptyDict) ],
      description |-> "Policy mismatch: User " \o user \o " has MFA session but "
                      \o denied_action \o " denied due to condition mismatch",
      recommended_action |->
        "Admin must review IAM policy conditions for aws:MultiFactorAuthPresent",
      auto_remediation |-> FALSE,
      environment |-> ENVIRONMENT,
      ttl |-> clk.ttl + SevenDays ]

create_policy_mismatch_incident(user, source_ip, denied_action, cloudtrail_detail, u, clk) ==
    [ incident_id |-> incident_id_of("POLICY", u),
      scenario |-> "policy_mismatch",
      severity |-> "MEDIUM",
      status |-> "OPEN",
      timestamp |-> isoformat(clk.ts),
      created_at |-> clk.created,
      user |-> user,
      source_ip |-> source_ip,
      detection_source |-> "cloudtrail",
      detection_signal |->
        [ event_name |-> denied_action,
          event_source |-> Get(cloudtrail_detail.eventSource, ""),
          error_code |-> Get(cloudtrail_detail.errorCode, "AccessDenied"),
          error_message |-> Get(cloudtrail_detail.errorMessage, ""),
          event_time |-> Get(cloudtrail_detail.eventTime, ""),
          request_parameters |-> Get(cloudtrail_detail.requestParameters, EmptyDict) ],
      description |-> "Policy mismatch: User " \o user \o " has MFA session but "
                      \o denied_action \o " denied due to condition mismatch",
      recommended_action |->
        "Admin must review IAM policy conditions for aws:MultiFactorAuthPresent",
      auto_remediation |-> FALSE,
      environment |-> ENVIRONMENT,
      ttl |-> clk.ttl + SevenDays ]

simulate_mfa_auth_failure(user, source_ip, metadata, u, clk) ==
    [ incident_id |-> incident_id_of("MFA-AUTH", u),
      scenario |-> "mfa_auth_failure",
      severity |-> "MEDIUM",
      status |-> "OPEN",
      timestamp |-> isoformat(clk.ts),
      created_at |-> clk.created,
      user |-> user,
      source_ip |-> source_ip,
      detection_source |-> "simulator",
      detection_signal |->
        [ event_name |-> "ConsoleLogin",
          event_source |-> "signin.amazonaws.com",
          error_message |-> "Failed authentication",
          additional_event_data |->
            [ MFAUsed |-> "No",
              LoginTo |-> "https://console.aws.amazon.com/console/home",
              MobileVersion |-> "No" ] ],
      description |-> "MFA authentication failure for user " \o user
                      \o " consistent with token expiration or timing issue",
      recommended_action |-> "User must re-authenticate with valid MFA token",
      auto_remediation |-> FALSE,
      metadata |-> metadata,
      environment |-> ENVIRONMENT,
      ttl |-> clk.ttl + SevenDays ]

\* simulate_rate_limiting taking the cooldown from the metadata
simulate_rate_limiting_metadata_cooldown(user, source_ip, metadata, u, clk) ==
    LET failure_count == Get(metadata.failure_count, 5)
        window_seconds == Get(metadata.window_seconds, 60)
    IN
    [ incident_id |-> incident_id_of("RATE-LIMIT", u),
      scenario |-> "rate_limiting",
      severity |-> "HIGH",
      status |-> "OPEN",
      timestamp |-> isoformat(clk.ts),
      created_at |-> clk.created,
      user |-> user,
      source_ip |-> source_ip,
      detection_source |-> "simulator",
      detection_signal |->
        [ event_name |-> "ConsoleLogin",
          event_source |-> "signin.amazonaws.com",
          failure_count |-> failure_count,
          window_seconds |-> window_seconds,
          pattern |-> "Multiple failed attempts from same user and IP" ],
      description |-> "Rate limiting triggered: " \o ToString(failure_count)
                      \o " failed MFA attempts in " \o ToString(window_seconds)
                      \o "s for user " \o user,
      recommended_action |-> "Wait for cooldown period, then attempt re-authentication",
      auto_remediation |-> TRUE,
      remediation_type |-> "assisted",
      cooldown_seconds |-> Get(metadata.cooldown_seconds, DefaultCooldown),
      metadata |-> metadata,
      environment |-> ENVIRONMENT,
      ttl |-> clk.ttl + SevenDays ]

simulate_rate_limiting(user, source_ip, metadata, u, clk) ==
    LET failure_count == Get(metadata.failure_count, 5)
        window_seconds == Get(metadata.window_seconds, 60)
    IN
    [ incident_id |-> incident_id_of("RATE-LIMIT", u),
      scenario |-> "rate_limiting",
      severity |-> "HIGH",
      status |-> "OPEN",
      timestamp |-> isoformat(clk.ts),
      created_at |-> clk.created,
      user |-> user,
      source_ip |-> source_ip,
      detection_source |-> "simulator",
      detection_signal |->
        [ event_name |-> "ConsoleLogin",
          event_source |-> "signin.amazonaws.com",
          failure_count |-> failure_count,
          window_seconds |-> window_seconds,
          pattern |-> "Multiple failed attempts from same user and IP" ],
      description |-> "Rate limiting triggered: " \o ToString(failure_count)
                      \o " failed MFA attempts in " \o ToString(window_seconds)
                      \o "s for user " \o user,
      recommended_action |-> "Wait for cooldown period, then attempt re-authentication",
      auto_remediation |-> TRUE,
      remediation_type |-> "assisted",
      cooldown_seconds |-> DefaultCooldown,
      metadata |-> metadata,
      environment |-> ENVIRONMENT,
      ttl |-> clk.ttl + SevenDays ]

\* str.split(':') : the list of the pieces between the colons
RECURSIVE split_colon(_, _)
split_colon(s, piece) ==
    IF s = <<>> THEN <<piece>>
    ELSE IF Head(s) = ":" THEN <<piece>> \o split_colon(Tail(s), <<>>)
    ELSE split_colon(Tail(s), Append(piece, Head(s)))

\* ':' in denied_action
has_colon(s) == \E i \in 1..Len(s) : s[i] = ":"

\* simulate_policy_mismatch reporting the whole denied action as the event name
simulate_policy_mismatch_unsplit(user, source_ip, metadata, u, clk) ==
    LET denied_action ==
            Get(metadata.denied_action,
                <<"s","3",":","G","e","t","O","b","j","e","c","t">>)
        resource == Get(metadata.resource, "arn:aws:s3:::sensitive-bucket/*")
    IN
    [ incident_id |-> incident_id_of("POLICY", u),
      scenario |-> "policy_mismatch",
      severity |-> "MEDIUM",
      status |-> "OPEN",
      timestamp |-> isoformat(clk.ts),
      created_at |-> clk.created,
      user |-> user,
      source_ip |-> source_ip,
      detection_source |-> "simulator",
      detection_signal |->
        [ event_name |-> JoinChars(denied_action),
          event_source |->
            IF has_colon(denied_action)
            THEN JoinChars(split_colon(denied_action, <<>>)[1]) \o ".amazonaws.com"
            ELSE "aws.amazonaws.com",
          error_code |-> "AccessDenied",
          error_message |-> "User has MFA but policy condition denies action",
          condition_evaluated |-> "aws:MultiFactorAuthPresent",
          condition_result |-> "false (expected true)",
          attempted_action |-> JoinChars(denied_action),
          resource |-> resource ],
      description |-> "Policy mismatch: User " \o user \o " has MFA session but "
                      \o JoinChars(denied_action) \o " denied due to condition mismatch",
      recommended_action |->
        "Admin must review IAM policy conditions for aws:MultiFactorAuthPresent",
      auto_remediation |-> FALSE,
      metadata |-> metadata,
      environment |-> ENVIRONMENT,
      ttl |-> clk.ttl + SevenDays ]

simulate_policy_mismatch(user, source_ip, metadata, u, clk) ==
    LET denied_action ==
            Get(metadata.denied_action,
                <<"s","3",":","G","e","t","O","b","j","e","c","t">>)
        resource == Get(metadata.resource, "arn:aws:s3:::sensitive-bucket/*")
    IN
    [ incident_id |-> incident_id_of("POLICY", u),
      scenario |-> "policy_mismatch",
      severity |-> "MEDIUM",
      status |-> "OPEN",
      timestamp |-> isoformat(clk.ts),
      created_at |-> clk.created,
      user |-> user,
      source_ip |-> source_ip,
      detection_source |-> "simulator",
      detection_signal |->
        [ event_name |->
            IF has_colon(denied_action)
            THEN JoinChars(split_colon(denied_action, <<>>)[2])
            ELSE JoinChars(denied_action),
          event_source |->
            IF has_colon(denied_action)
            THEN JoinChars(split_colon(denied_action, <<>>)[1]) \o ".amazonaws.com"
            ELSE "aws.amazonaws.com",
          error_code |-> "AccessDenied",
          error_message |-> "User has MFA but policy condition denies action",
          condition_evaluated |-> "aws:MultiFactorAuthPresent",
          condition_result |-> "false (expected true)",
          attempted_action |-> JoinChars(denied_action),
          resource |-> resource ],
      description |-> "Policy mismatch: User " \o user \o " has MFA session but "
                      \o JoinChars(denied_action) \o " denied due to condition mismatch",
      recommended_action |->
        "Admin must review IAM policy conditions for aws:MultiFactorAuthPresent",
      auto_remediation |-> FALSE,
      metadata |-> metadata,
      environment |-> ENVIRONMENT,
      ttl |-> clk.ttl + SevenDays ]

---------------------------------------------------------------------------
(* Collaborator calls (simulator/handler.py) *)

\* store_incident skipping the put when the table already holds an incident
\* of the same scenario for the same user and source IP
store_incident_deduplicated(table, incident) ==
    IF \E j \in DOMAIN table :
          /\ table[j].scenario = incident.scenario
          /\ table[j].user = incident.user
          /\ table[j].source_ip = incident.source_ip
    THEN table
    ELSE [k \in (DOMAIN table) \cup {incident.incident_id} |->
            IF k = incident.incident_id THEN incident ELSE table[k]]

\* table.put_item(Item=incident): the item replaces whatever the key held
store_incident(table, incident) ==
    [k \in (DOMAIN table) \cup {incident.incident_id} |->
        IF k = incident.incident_id THEN incident ELSE table[k]]

\* the call publish_alert makes, if any; a failed publish is swallowed
publish_alert(incident, topic_arn, fails) ==
    IF ~Truthy(topic_arn) THEN <<>>
    ELSE << [ op |-> "sns.publish", ok |-> ~fails.sns,
              subject |-> "[" \o incident.severity \o "] MFA Incident: "
                          \o incident.scenario,
              incident_id |-> incident.incident_id ] >>

\* emit_metric never reached once the publish has failed
emit_metric_unless_publish_failed(incident, fails) ==
    IF fails.sns THEN <<>>
    ELSE << [ op |-> "cloudwatch.put_metric_data", ok |-> ~fails.cw,
              subject |-> "IncidentCount",
              incident_id |-> incident.incident_id ] >>

\* the call emit_metric makes; a failed put_metric_data is swallowed
emit_metric(incident, fails) ==
    << [ op |-> "cloudwatch.put_metric_data", ok |-> ~fails.cw,
         subject |-> "IncidentCount",
         incident_id |-> incident.incident_id ] >>

\* number of calls of the given kind that succeeded
Accepted(cs, op) == Cardinality({i \in 1..Len(cs) : cs[i].op = op /\ cs[i].ok})

\* store_publish_emit emitting the metric before it publishes the alert
store_publish_emit_metric_first(incident, fails, created) ==
    IF fails.store
    THEN /\ calls' = << [ op |-> "dynamodb.put_item", ok |-> FALSE,
                          subject |-> incident.scenario,
                          incident_id |-> incident.incident_id ] >>
         /\ response' = [ kind |-> "raised" ]
         /\ UNCHANGED <<store, sns_count, metric_count>>
    ELSE LET cs == << [ op |-> "dynamodb.put_item", ok |-> TRUE,
                        subject |-> incident.scenario,
                        incident_id |-> incident.incident_id ] >>
                   \o emit_metric(incident, fails)
                   \o publish_alert(incident, SNS_TOPIC_ARN, fails)
         IN /\ store' = store_incident(store, incident)
            /\ calls' = cs
            /\ sns_count' = sns_count + Accepted(cs, "sns.publish")
            /\ metric_count' = metric_count + Accepted(cs, "cloudwatch.put_metric_data")
            /\ response' = [ kind |-> "returned", statusCode |-> 200, body |-> created ]

\* store_incident(incident); publish_alert(incident); emit_metric(incident);
\* return created -- or the exception of a failed put_item, re-raised
store_publish_emit(incident, fails, created) ==
    IF fails.store
    THEN /\ calls' = << [ op |-> "dynamodb.put_item", ok |-> FALSE,
                          subject |-> incident.scenario,
                          incident_id |-> incident.incident_id ] >>
         /\ response' = [ kind |-> "raised" ]
         /\ UNCHANGED <<store, sns_count, metric_count>>
    ELSE LET cs == << [ op |-> "dynamodb.put_item", ok |-> TRUE,
                        subject |-> incident.scenario,
                        incident_id |-> incident.incident_id ] >>
                   \o publish_alert(incident, SNS_TOPIC_ARN, fails)
                   \o emit_metric(incident, fails)
         IN /\ store' = store_incident(store, incident)
            /\ calls' = cs
            /\ sns_count' = sns_count + Accepted(cs, "sns.publish")
            /\ metric_count' = metric_count + Accepted(cs, "cloudwatch.put_metric_data")
            /\ response' = [ kind |-> "returned", statusCode |-> 200, body |-> created ]

---------------------------------------------------------------------------
(* Simulator / detector Lambda (simulator/handler.py) *)


\* is_cloudtrail_event without the 'detail-type' test
is_cloudtrail_event_any_detail(ev) ==
    /\ ev.detail.kind # "absent"
    /\ ev.detail.kind = "mapping"

is_cloudtrail_event(ev) ==
    /\ ev.detail_type # None
    /\ ev.detail.kind # "absent"
    /\ ev.detail.kind = "mapping"


\* extract_username preferring principalId over userName
extract_username_principal_first(detail) ==
    LET user_identity == Get(detail.userIdentity,
                             [userName |-> None, principalId |-> None,
                              sessionContext |-> None])
    IN Get(user_identity.principalId, Get(user_identity.userName, "unknown"))

\* username = user_identity.get('userName', user_identity.get('principalId', 'unknown'))
extract_username(detail) ==
    LET user_identity == Get(detail.userIdentity,
                             [userName |-> None, principalId |-> None,
                              sessionContext |-> None])
    IN Get(user_identity.userName, Get(user_identity.principalId, "unknown"))


\* extract_mfa_authenticated taking a missing attribute for an MFA session
extract_mfa_authenticated_default_true(detail) ==
    LET user_identity == Get(detail.userIdentity,
                             [userName |-> None, principalId |-> None,
                              sessionContext |-> None])
        session_context == Get(user_identity.sessionContext, [attributes |-> None])
        session_attrs == Get(session_context.attributes, [mfaAuthenticated |-> None])
    IN Get(session_attrs.mfaAuthenticated, "true")

\* session_attrs.get('mfaAuthenticated', 'false') through the nested defaults
extract_mfa_authenticated(detail) ==
    LET user_identity == Get(detail.userIdentity,
                             [userName |-> None, principalId |-> None,
                              sessionContext |-> None])
        session_context == Get(user_identity.sessionContext, [attributes |-> None])
        session_attrs == Get(session_context.attributes, [mfaAuthenticated |-> None])
    IN Get(session_attrs.mfaAuthenticated, "false")

\* the pattern matching of process_cloudtrail_event: the incident, or None
match_incident(detail, u, clk) ==
    LET event_name == Get(detail.eventName, "")
        error_code == Get(detail.errorCode, "")
        error_message == Get(detail.errorMessage, "")
        username == extract_username(detail)
        source_ip == Get(detail.sourceIPAddress, "unknown")
    IN
    IF event_name = "ConsoleLogin" /\ Truthy(error_message)
    THEN LET additional_data == Get(detail.additionalEventData, [MFAUsed |-> None])
             mfa_used == Get(additional_data.MFAUsed, "Yes")
         IN IF mfa_used = "No" \/ Truthy(error_message)
            THEN Some(create_mfa_auth_failure_incident(username, source_ip, detail, u, clk))
            ELSE None
    ELSE IF error_code \in {"AccessDenied", "UnauthorizedAccess"}
    THEN IF extract_mfa_authenticated(detail) = "true"
         THEN Some(create_policy_mismatch_incident(username, source_ip, event_name,
                                                   detail, u, clk))
         ELSE None
    ELSE None


\* no_match_response reporting the detail-type in place of the event name
no_match_response_detail_type(ev) ==
    [ kind |-> "returned", statusCode |-> 200,
      body |-> [ mode |-> "detector",
                 status |-> "no_match",
                 event_name |-> Get(ev.detail_type, "") ] ]

\* the return of process_cloudtrail_event when no pattern matched
no_match_response(ev) ==
    [ kind |-> "returned", statusCode |-> 200,
      body |-> [ mode |-> "detector",
                 status |-> "no_match",
                 event_name |-> Get(ev.detail.map.eventName, "") ] ]

process_cloudtrail_event(ev, u, clk, fails) ==
    LET detail == ev.detail.map
        found == match_incident(detail, u, clk)
    IN
    IF found # None
    THEN LET incident == CHOOSE i \in found : TRUE
         IN /\ store_publish_emit(incident, fails,
                  [ mode |-> "detector",
                    incident_id |-> incident.incident_id,
                    scenario |-> incident.scenario,
                    status |-> "created",
                    source |-> "cloudtrail" ])
            /\ now' = clk.ttl
    ELSE /\ response' = no_match_response(ev)
         /\ calls' = <<>>
         /\ UNCHANGED <<store, sns_count, metric_count, now>>


\* the list of valid scenarios with the last one forgotten
ValidScenarios_short == <<"mfa_auth_failure", "rate_limiting">>

ValidScenarios == <<"mfa_auth_failure", "rate_limiting", "policy_mismatch">>

NoMetadata ==
    [failure_count |-> None, window_seconds |-> None,
     denied_action |-> None, resource |-> None, cooldown_seconds |-> None]

\* process_simulator_event naming an absent user 'unknown', as the classifier does
process_simulator_event_default_user_unknown(ev, u, clk, fails) ==
    LET scenario == Get(ev.scenario, "mfa_auth_failure")
        user == Get(ev.user, "unknown")
        source_ip == Get(ev.source_ip, "192.0.2.1")
        metadata == Get(ev.metadata, NoMetadata)
    IN
    IF scenario \in {"mfa_auth_failure", "rate_limiting", "policy_mismatch"}
    THEN LET incident ==
                 IF scenario = "mfa_auth_failure"
                 THEN simulate_mfa_auth_failure(user, source_ip, metadata, u, clk)
                 ELSE IF scenario = "rate_limiting"
                 THEN simulate_rate_limiting(user, source_ip, metadata, u, clk)
                 ELSE simulate_policy_mismatch(user, source_ip, metadata, u, clk)
         IN /\ store_publish_emit(incident, fails,
                  [ mode |-> "simulator",
                    incident_id |-> incident.incident_id,
                    scenario |-> scenario,
                    status |-> "created",
                    timestamp |-> incident.timestamp ])
            /\ now' = clk.ttl
    ELSE /\ response' = [ kind |-> "returned", statusCode |-> 400,
                          body |-> [ error |-> "Unknown scenario: " \o scenario,
                                     valid_scenarios |-> ValidScenarios ] ]
         /\ calls' = <<>>
         /\ UNCHANGED <<store, sns_count, metric_count, now>>

process_simulator_event(ev, u, clk, fails) ==
    LET scenario == Get(ev.scenario, "mfa_auth_failure")
        user == Get(ev.user, "test-user")
        source_ip == Get(ev.source_ip, "192.0.2.1")
        metadata == Get(ev.metadata, NoMetadata)
    IN
    IF scenario \in {"mfa_auth_failure", "rate_limiting", "policy_mismatch"}
    THEN LET incident ==
                 IF scenario = "mfa_auth_failure"
                 THEN simulate_mfa_auth_failure(user, source_ip, metadata, u, clk)
                 ELSE IF scenario = "rate_limiting"
                 THEN simulate_rate_limiting(user, source_ip, metadata, u, clk)
                 ELSE simulate_policy_mismatch(user, source_ip, metadata, u, clk)
         IN /\ store_publish_emit(incident, fails,
                  [ mode |-> "simulator",
                    incident_id |-> incident.incident_id,
                    scenario |-> scenario,
                    status |-> "created",
                    timestamp |-> incident.timestamp ])
            /\ now' = clk.ttl
    ELSE /\ response' = [ kind |-> "returned", statusCode |-> 400,
                          body |-> [ error |-> "Unknown scenario: " \o scenario,
                                     valid_scenarios |-> ValidScenarios ] ]
         /\ calls' = <<>>
         /\ UNCHANGED <<store, sns_count, metric_count, now>>

lambda_handler(ev, u, clk, fails) ==
    /\ invocations < MaxInvocations
    /\ invocations' = invocations + 1
    /\ event' = ev
    /\ IF is_cloudtrail_event(ev)
       THEN process_cloudtrail_event(ev, u, clk, fails)
       ELSE process_simulator_event(ev, u, clk, fails)
    /\ UNCHANGED <<SNS_TOPIC_ARN, runs, resolution>>

---------------------------------------------------------------------------
(* Responder Lambda (responder/handler.py) *)

\* the fields an UpdateExpression SET writes over an item
SetFields(item, updates) ==
    [k \in (DOMAIN item) \cup (DOMAIN updates) |->
        IF k \in DOMAIN updates THEN updates[k] ELSE item[k]]

\* get_eligible_incidents scanning for OPEN incidents of any scenario
get_eligible_incidents_any_scenario(table, current_time) ==
    LET Items == { table[k] : k \in { j \in DOMAIN table :
                       table[j].status = "OPEN" } }
        created_at(item) == IF "created_at" \in DOMAIN item THEN item.created_at ELSE 0
        cooldown(item) == IF "cooldown_seconds" \in DOMAIN item
                          THEN item.cooldown_seconds ELSE DefaultCooldown
    IN { item \in Items : current_time > created_at(item) + cooldown(item) }

\* get_eligible_incidents without the cooldown test
get_eligible_incidents_ignore_cooldown(table, current_time) ==
    { table[k] : k \in { j \in DOMAIN table :
                            /\ "scenario" \in DOMAIN table[j]
                            /\ table[j].scenario = "rate_limiting"
                            /\ table[j].status = "OPEN" } }

\* get_eligible_incidents taking an incident only while its cooldown runs
get_eligible_incidents_within_cooldown(table, current_time) ==
    LET Items == { table[k] : k \in { j \in DOMAIN table :
                       /\ "scenario" \in DOMAIN table[j]
                       /\ table[j].scenario = "rate_limiting"
                       /\ table[j].status = "OPEN" } }
        created_at(item) == IF "created_at" \in DOMAIN item THEN item.created_at ELSE 0
        cooldown(item) == IF "cooldown_seconds" \in DOMAIN item
                          THEN item.cooldown_seconds ELSE DefaultCooldown
    IN { item \in Items : current_time < created_at(item) + cooldown(item) }

\* get_eligible_incidents taking an incident at the very end of its cooldown
get_eligible_incidents_at_cooldown(table, current_time) ==
    LET Items == { table[k] : k \in { j \in DOMAIN table :
                       /\ "scenario" \in DOMAIN table[j]
                       /\ table[j].scenario = "rate_limiting"
                       /\ table[j].status = "OPEN" } }
        created_at(item) == IF "created_at" \in DOMAIN item THEN item.created_at ELSE 0
        cooldown(item) == IF "cooldown_seconds" \in DOMAIN item
                          THEN item.cooldown_seconds ELSE DefaultCooldown
    IN { item \in Items : current_time >= created_at(item) + cooldown(item) }

\* the scan filter and the cooldown test of get_eligible_incidents
get_eligible_incidents(table, current_time) ==
    LET Items == { table[k] : k \in { j \in DOMAIN table :
                       /\ "scenario" \in DOMAIN table[j]
                       /\ table[j].scenario = "rate_limiting"
                       /\ table[j].status = "OPEN" } }
        created_at(item) == IF "created_at" \in DOMAIN item THEN item.created_at ELSE 0
        cooldown(item) == IF "cooldown_seconds" \in DOMAIN item
                          THEN item.cooldown_seconds ELSE DefaultCooldown
    IN { item \in Items : current_time > created_at(item) + cooldown(item) }


\* update_incident_status writing the status it was meant to leave behind
update_incident_status_reopen(table, incident_id, new_status, resolution_time, resolution_notes, t) ==
    LET updates == [ status |-> "OPEN",
                     resolved_at |-> isoformat(t),
                     resolution_time_seconds |-> resolution_time,
                     resolution_notes |-> resolution_notes,
                     remediation_type |-> "assisted_auto" ]
        old == IF incident_id \in DOMAIN table
               THEN table[incident_id]
               ELSE [incident_id |-> incident_id]
    IN [k \in (DOMAIN table) \cup {incident_id} |->
           IF k = incident_id THEN SetFields(old, updates) ELSE table[k]]

\* update_incident_status putting a new item that holds the key and the
\* five fields only
update_incident_status_replace_item(table, incident_id, new_status, resolution_time, resolution_notes, t) ==
    LET updates == [ status |-> new_status,
                     resolved_at |-> isoformat(t),
                     resolution_time_seconds |-> resolution_time,
                     resolution_notes |-> resolution_notes,
                     remediation_type |-> "assisted_auto" ]
    IN [k \in (DOMAIN table) \cup {incident_id} |->
           IF k = incident_id
           THEN SetFields([incident_id |-> incident_id], updates)
           ELSE table[k]]

\* update_incident_status leaving remediation_type as the item has it
update_incident_status_keep_remediation_type(table, incident_id, new_status, resolution_time, resolution_notes, t) ==
    LET updates == [ status |-> new_status,
                     resolved_at |-> isoformat(t),
                     resolution_time_seconds |-> resolution_time,
                     resolution_notes |-> resolution_notes ]
        old == IF incident_id \in DOMAIN table
               THEN table[incident_id]
               ELSE [incident_id |-> incident_id]
    IN [k \in (DOMAIN table) \cup {incident_id} |->
           IF k = incident_id THEN SetFields(old, updates) ELSE table[k]]

\* table.update_item(Key, SET ...): writes the five fields, creating the item
\* when the key is not in the table
update_incident_status(table, incident_id, new_status, resolution_time, resolution_notes, t) ==
    LET updates == [ status |-> new_status,
                     resolved_at |-> isoformat(t),
                     resolution_time_seconds |-> resolution_time,
                     resolution_notes |-> resolution_notes,
                     remediation_type |-> "assisted_auto" ]
        old == IF incident_id \in DOMAIN table
               THEN table[incident_id]
               ELSE [incident_id |-> incident_id]
    IN [k \in (DOMAIN table) \cup {incident_id} |->
           IF k = incident_id THEN SetFields(old, updates) ELSE table[k]]

ResolutionNotes ==
    "Cooldown period completed. Rate limiting cleared. User may attempt re-authentication."

IdleRun == [ pc |-> "idle", eligible |-> {}, pending |-> {}, processed |-> 0 ]

\* the return after the loop, reached only when the scan succeeded
responder_return(eligible_incidents, processed) ==
    [ kind |-> "returned", statusCode |-> 200,
      body |-> [ processed |-> processed,
                 total_eligible |-> Cardinality(eligible_incidents) ],
      query_errors |-> <<>> ]

\* print(f"[ERROR] Failed to query incidents: ...") in the except branch of
\* get_eligible_incidents
QueryErrors(scan_fails) ==
    IF scan_fails THEN <<"[ERROR] Failed to query incidents">> ELSE <<>>

\* responder_query letting the exception of a failed scan reach the caller
responder_query_raise_on_failed_scan(r, scan_fails) ==
    /\ runs[r].pc = "idle"
    /\ LET eligible_incidents == IF scan_fails THEN {}
                                 ELSE get_eligible_incidents(store, now)
       IN IF scan_fails
          THEN /\ resolution' = [ kind |-> "raised",
                                  query_errors |-> QueryErrors(scan_fails) ]
               /\ runs' = [runs EXCEPT ![r] = IdleRun]
          ELSE
          IF eligible_incidents = {}
          THEN /\ resolution' = [ kind |-> "returned", statusCode |-> 200,
                                  body |-> [ processed |-> 0,
                                             message |-> "No eligible incidents" ],
                                  query_errors |-> QueryErrors(scan_fails) ]
               /\ runs' = [runs EXCEPT ![r] = IdleRun]
          ELSE /\ runs' = [runs EXCEPT ![r] =
                              [ IdleRun EXCEPT !.pc = "loop",
                                               !.eligible = eligible_incidents,
                                               !.pending = eligible_incidents ] ]
               /\ UNCHANGED resolution
    /\ UNCHANGED <<store, now, SNS_TOPIC_ARN, event, response, calls, invocations,
                   sns_count, metric_count>>

\* lambda_handler, up to the start of the loop: query, and return at once
\* when nothing is eligible (a failed scan is logged and yields []);
\* query_errors are the [ERROR] lines get_eligible_incidents printed
responder_query(r, scan_fails) ==
    /\ runs[r].pc = "idle"
    /\ LET eligible_incidents == IF scan_fails THEN {}
                                 ELSE get_eligible_incidents(store, now)
       IN IF eligible_incidents = {}
          THEN /\ resolution' = [ kind |-> "returned", statusCode |-> 200,
                                  body |-> [ processed |-> 0,
                                             message |-> "No eligible incidents" ],
                                  query_errors |-> QueryErrors(scan_fails) ]
               /\ runs' = [runs EXCEPT ![r] = IdleRun]
          ELSE /\ runs' = [runs EXCEPT ![r] =
                              [ IdleRun EXCEPT !.pc = "loop",
                                               !.eligible = eligible_incidents,
                                               !.pending = eligible_incidents ] ]
               /\ UNCHANGED resolution
    /\ UNCHANGED <<store, now, SNS_TOPIC_ARN, event, response, calls, invocations,
                   sns_count, metric_count>>

\* after_iteration leaving the loop at the first incident that failed
after_iteration_stop_on_failure(r, incident, done) ==
    LET pending == IF done = 0 THEN {} ELSE runs[r].pending \ {incident}
        processed == runs[r].processed + done
    IN IF pending = {}
       THEN /\ runs' = [runs EXCEPT ![r] = IdleRun]
            /\ resolution' = responder_return(runs[r].eligible, processed)
       ELSE /\ runs' = [runs EXCEPT ![r].pending = pending, ![r].processed = processed]
            /\ UNCHANGED resolution

\* after an iteration of run r that counted `done` more incidents: the loop
\* goes on, or the handler returns after the last incident
after_iteration(r, incident, done) ==
    LET pending == runs[r].pending \ {incident}
        processed == runs[r].processed + done
    IN IF pending = {}
       THEN /\ runs' = [runs EXCEPT ![r] = IdleRun]
            /\ resolution' = responder_return(runs[r].eligible, processed)
       ELSE /\ runs' = [runs EXCEPT ![r].pending = pending, ![r].processed = processed]
            /\ UNCHANGED resolution

\* one iteration of the loop: process_remediation(incident) inside try/except.
\* clk.created is the time.time() read of process_remediation, clk.ttl the
\* datetime.now() read of update_incident_status.
process_remediation(r, incident, clk, fails) ==
    /\ runs[r].pc = "loop"
    /\ incident \in runs[r].pending
    /\ LET created_at == IF "created_at" \in DOMAIN incident
                         THEN incident.created_at ELSE clk.created
           resolved_at == clk.created
           resolution_time_seconds == resolved_at - created_at
       IN IF fails.store
          THEN /\ after_iteration(r, incident, 0)
               /\ UNCHANGED <<store, sns_count, metric_count>>
          ELSE /\ store' = update_incident_status(store, incident.incident_id,
                              "RESOLVED", resolution_time_seconds,
                              ResolutionNotes, clk.ttl)
               /\ sns_count' = sns_count +
                     (IF Truthy(SNS_TOPIC_ARN) /\ ~fails.sns THEN 1 ELSE 0)
               /\ metric_count' = metric_count + (IF fails.cw THEN 0 ELSE 1)
               /\ after_iteration(r, incident, 1)
    /\ now' = clk.ttl
    /\ UNCHANGED <<SNS_TOPIC_ARN, event, response, calls, invocations>>

---------------------------------------------------------------------------
(* Inputs *)

Fails == [store : BOOLEAN, sns : BOOLEAN, cw : BOOLEAN]

\* in the interleaved specification only the table calls fail
StoreFails == { f \in Fails : ~f.sns /\ ~f.cw }

\* the clock values explored: the start, the cooldown, and a second after each
Times == { l + k : l \in {0, DefaultCooldown}, k \in {0, 1} }

UserIdentities ==
    { [ userName |-> n, principalId |-> p, sessionContext |-> c ] :
        n \in {None, Some(""), Some("finance-analyst-01")},
        p \in {None, Some(""), Some("AIDA123456789")},
        c \in {None} \cup
              { Some([attributes |-> Some([mfaAuthenticated |-> m])]) :
                   m \in {Some("true"), Some("false")} } }

Details ==
    [ eventName : {None, Some("ConsoleLogin"), Some("GetObject")},
      errorCode : {None, Some("AccessDenied"), Some("UnauthorizedAccess"),
                   Some("ThrottlingException")},
      errorMessage : {None, Some(""), Some("Failed authentication")},
      userIdentity : {None} \cup { Some(i) : i \in UserIdentities },
      sourceIPAddress : {None, Some("203.0.113.42")},
      additionalEventData :
          {None} \cup { Some([MFAUsed |-> m]) : m \in {None, Some("No"), Some("Yes")} },
      eventTime : {Some("2024-01-15T10:30:00Z")},
      awsRegion : {None},
      eventSource : {Some("s3.amazonaws.com")},
      requestParameters : {None, Some([bucketName |-> "sensitive-bucket"])} ]

NoDetail == [kind |-> "absent"]

\* requests whose detail is a mapping
Envelopes ==
    { [ detail_type |-> t, detail |-> [kind |-> "mapping", map |-> d],
        scenario |-> None, user |-> None, source_ip |-> None, metadata |-> None ] :
        t \in {None, Some(""), Some("AWS Console Sign In via CloudTrail")},
        d \in Details }

Metadatas ==
    [ failure_count : {None, Some(7)},
      window_seconds : {None, Some(45)},
      denied_action : {None, Some(<<"i","a","m",":","L","i","s","t">>),
                       Some(<<"L","i","s","t">>),
                       Some(<<"k","m","s",":","D",":","x">>)},
      resource : {None, Some("arn:aws:secretsmanager:::secret/prod")},
      cooldown_seconds : {None, Some(10)} ]

\* requests whose detail is absent or a scalar
SyntheticRequests ==
    [ detail_type : {None, Some(""), Some("Something")},
      detail : {NoDetail, [kind |-> "scalar", value |-> "not a dict"]},
      scenario : {None, Some("mfa_auth_failure"), Some("rate_limiting"),
                  Some("policy_mismatch"), Some("unknown_scenario"), Some("")},
      user : {None, Some("dev-engineer-02")},
      source_ip : {None, Some("198.51.100.7")},
      metadata : {None} \cup { Some(m) : m \in Metadatas } ]

AllEvents == Envelopes \cup SyntheticRequests

NoEvent ==
    [ detail_type |-> None, detail |-> NoDetail, scenario |-> None,
      user |-> None, source_ip |-> None, metadata |-> None ]

---------------------------------------------------------------------------
(* Specifications *)

InitWith(arns) ==
    /\ store = EmptyDict
    /\ now = 0
    /\ SNS_TOPIC_ARN \in arns
    /\ event = NoEvent
    /\ response = [kind |-> "none"]
    /\ calls = <<>>
    /\ invocations = 0
    /\ sns_count = 0
    /\ metric_count = 0
    /\ runs = [r \in 1..MaxRuns |-> IdleRun]
    /\ resolution = [kind |-> "none"]

Init == InitWith({TopicArn})

DispatchInit == InitWith({"", TopicArn})

FirstUuid == CHOOSE u \in Uuid4Hex : u[1] = "0"

ReadsWithin(t) == { clk \in ClockReads(t) : clk.ttl \in Times }

\* one invocation of the simulator/detector Lambda with any request
Dispatch ==
    /\ invocations = 0
    /\ \E ev \in AllEvents, fails \in Fails :
          lambda_handler(ev, FirstUuid, [ts |-> now, created |-> now, ttl |-> now], fails)

DispatchNext == Dispatch

DispatchSpec == DispatchInit /\ [][DispatchNext]_vars

\* the requests of the interleaved specification: a simulated rate_limiting
\* request and a live ConsoleLogin failure
SampleEvents ==
    { [ NoEvent EXCEPT !.scenario = Some("rate_limiting") ],
      [ NoEvent EXCEPT
          !.detail_type = Some("AWS Console Sign In via CloudTrail"),
          !.detail =
             [ kind |-> "mapping",
               map |-> [ eventName |-> Some("ConsoleLogin"),
                         errorCode |-> None,
                         errorMessage |-> Some("Failed authentication"),
                         userIdentity |->
                            Some([ userName |-> Some("finance-analyst-01"),
                                   principalId |-> None,
                                   sessionContext |-> None ]),
                         sourceIPAddress |-> None,
                         additionalEventData |-> Some([MFAUsed |-> Some("No")]),
                         eventTime |-> Some("2024-01-15T10:30:00Z"),
                         awsRegion |-> None,
                         eventSource |-> Some("s3.amazonaws.com"),
                         requestParameters |-> None ] ] ] }

\* an invocation of the simulator/detector Lambda
Invoke ==
    \E ev \in SampleEvents, u \in Uuid4Hex, clk \in ReadsWithin(now), fails \in StoreFails :
        lambda_handler(ev, u, clk, fails)

\* time passes
Tick ==
    /\ \E t \in Times : t > now /\ now' = t
    /\ UNCHANGED <<store, SNS_TOPIC_ARN, event, response, calls, invocations,
                   sns_count, metric_count, runs, resolution>>

\* a step of a responder invocation
Respond ==
    \E r \in 1..MaxRuns :
        \/ \E scan_fails \in BOOLEAN : responder_query(r, scan_fails)
        \/ \E incident \in runs[r].pending, clk \in ReadsWithin(now), fails \in StoreFails :
              /\ clk.ts = clk.created
              /\ process_remediation(r, incident, clk, fails)

Next == Invoke \/ Tick \/ Respond

Spec == Init /\ [][Next]_vars

\* The cooldown specification: incidents are created at 0 and at 100 and the
\* responder runs at ages 200, 300 and 400 of them; every clock read of an
\* invocation falls into the same second.
AgeTimes == {0, 100, 300, 400}

ExactReads(t) == [ts |-> t, created |-> t, ttl |-> t]

\* a live envelope of an S3 GetObject call denied despite an MFA session
LiveAccessDenied ==
    [ NoEvent EXCEPT
        !.detail_type = Some("AWS API Call via CloudTrail"),
        !.detail =
           [ kind |-> "mapping",
             map |-> [ eventName |-> Some("GetObject"),
                       errorCode |-> Some("AccessDenied"),
                       errorMessage |-> None,
                       userIdentity |->
                          Some([ userName |-> Some("finance-analyst-01"),
                                 principalId |-> None,
                                 sessionContext |->
                                    Some([attributes |->
                                            Some([mfaAuthenticated |-> Some("true")])]) ]),
                       sourceIPAddress |-> Some("203.0.113.42"),
                       additionalEventData |-> None,
                       eventTime |-> Some("2024-01-15T10:30:00Z"),
                       awsRegion |-> None,
                       eventSource |-> Some("s3.amazonaws.com"),
                       requestParameters |-> Some([bucketName |-> "sensitive-bucket"]) ] ] ]

\* the requests of the cooldown specification: those of SampleEvents, a
\* simulated policy_mismatch request and a live AccessDenied envelope
CooldownEvents ==
    SampleEvents \cup { [ NoEvent EXCEPT !.scenario = Some("policy_mismatch") ],
                         LiveAccessDenied }

\* an invocation of the simulator/detector Lambda whose calls all succeed
Create ==
    \E ev \in CooldownEvents, u \in Uuid4Hex :
        lambda_handler(ev, u, ExactReads(now),
                       [store |-> FALSE, sns |-> FALSE, cw |-> FALSE])

\* time passes
Advance ==
    /\ \E t \in AgeTimes : t > now /\ now' = t
    /\ UNCHANGED <<store, SNS_TOPIC_ARN, event, response, calls, invocations,
                   sns_count, metric_count, runs, resolution>>

\* a step of a responder invocation
Resolve ==
    \E r \in 1..MaxRuns :
        \/ \E scan_fails \in BOOLEAN : responder_query(r, scan_fails)
        \/ \E incident \in runs[r].pending, fails \in StoreFails :
              process_remediation(r, incident, ExactReads(now), fails)

CooldownNext == Create \/ Advance \/ Resolve

CooldownSpec == Init /\ [][CooldownNext]_vars

\* The resolution specification: an incident created at 0 is past its
\* cooldown at 301, and the clock may reach 302 between the two clock reads
\* of its resolution.
LateTimes == {0, 301, 302}

\* time.time() in process_remediation, then datetime.now() in
\* update_incident_status
ResponderReads(t) ==
    { clk \in ClockReads(t) : clk.ts = t /\ clk.created = t /\ clk.ttl \in LateTimes }

\* time passes
Elapse ==
    /\ \E t \in LateTimes : t > now /\ now' = t
    /\ UNCHANGED <<store, SNS_TOPIC_ARN, event, response, calls, invocations,
                   sns_count, metric_count, runs, resolution>>

\* a step of a responder invocation
ResolveLate ==
    \E r \in 1..MaxRuns :
        \/ \E scan_fails \in BOOLEAN : responder_query(r, scan_fails)
        \/ \E incident \in runs[r].pending, clk \in ResponderReads(now), fails \in StoreFails :
              process_remediation(r, incident, clk, fails)

ResolutionNext == Create \/ Elapse \/ ResolveLate

ResolutionSpec == Init /\ [][ResolutionNext]_vars

\* The recurring schedule: the clock values explored, the start and the
\* first second after the cooldown of an incident created at the start
LiveTimes == {0, DefaultCooldown + 1}

\* the last clock value at which an incident is created, so that the
\* cooldown of every incident ends within LiveTimes
CreateUntil == 0

NoFailure == [store |-> FALSE, sns |-> FALSE, cw |-> FALSE]

\* an invocation of the simulator/detector Lambda
LiveCreate ==
    /\ now <= CreateUntil
    /\ \E ev \in SampleEvents, u \in Uuid4Hex :
          lambda_handler(ev, u, ExactReads(now), NoFailure)

\* time passes
LiveTick ==
    /\ \E t \in LiveTimes : t > now /\ now' = t
    /\ UNCHANGED <<store, SNS_TOPIC_ARN, event, response, calls, invocations,
                   sns_count, metric_count, runs, resolution>>

\* a responder invocation starts and its scan succeeds
ScanSucceeds == \E r \in 1..MaxRuns : responder_query(r, FALSE)

\* a responder invocation starts and its scan fails
ScanFails == \E r \in 1..MaxRuns : responder_query(r, TRUE)

\* an iteration of a responder invocation whose update succeeds
UpdateSucceeds ==
    \E r \in 1..MaxRuns : \E incident \in runs[r].pending :
        process_remediation(r, incident, ExactReads(now), NoFailure)

\* an iteration of a responder invocation whose update fails
UpdateFails ==
    \E r \in 1..MaxRuns : \E incident \in runs[r].pending :
        process_remediation(r, incident, ExactReads(now),
                            [store |-> TRUE, sns |-> FALSE, cw |-> FALSE])

LiveNext ==
    LiveCreate \/ LiveTick \/ ScanSucceeds \/ ScanFails \/ UpdateSucceeds \/ UpdateFails

\* the schedule fires for ever and the clock keeps advancing (weak fairness);
\* scans and updates succeed eventually, however often they fail
LiveSpec ==
    /\ Init /\ [][LiveNext]_vars
    /\ WF_vars(LiveTick)
    /\ WF_vars(ScanSucceeds)
    /\ SF_vars(UpdateSucceeds)

---------------------------------------------------------------------------
(* The last invocation, as the claims speak of it *)

Handled == invocations > 0

Raised == response.kind = "raised"

Created ==
    /\ response.kind = "returned"
    /\ "status" \in DOMAIN response.body
    /\ response.body.status = "created"

NoMatch ==
    /\ response.kind = "returned"
    /\ "status" \in DOMAIN response.body
    /\ response.body.status = "no_match"

\* the incident the last invocation stored
StoredIncident == store[response.body.incident_id]

PutCalls == { i \in 1..Len(calls) : calls[i].op = "dynamodb.put_item" }
PublishCalls == { i \in 1..Len(calls) : calls[i].op = "sns.publish" }
MetricCalls == { i \in 1..Len(calls) : calls[i].op = "cloudwatch.put_metric_data" }

\* a live envelope in the words of the specification: a non-empty
\* pattern-type and a detail that is a mapping
LiveEnvelope(ev) ==
    /\ ev.detail_type # None
    /\ Get(ev.detail_type, "") # ""
    /\ ev.detail.kind = "mapping"

\* rule a: ConsoleLogin with a non-empty error message
RuleA(d) ==
    /\ d.eventName = Some("ConsoleLogin")
    /\ d.errorMessage \notin {None, Some("")}

\* rule b: ConsoleLogin, empty or absent error message, MFAUsed = "No"
RuleB(d) ==
    /\ d.eventName = Some("ConsoleLogin")
    /\ d.errorMessage \in {None, Some("")}
    /\ d.additionalEventData = Some([MFAUsed |-> Some("No")])

\* rule c: AccessDenied/UnauthorizedAccess with mfaAuthenticated = "true"
RuleC(d) ==
    /\ d.errorCode \in {Some("AccessDenied"), Some("UnauthorizedAccess")}
    /\ d.userIdentity # None
    /\ (CHOOSE i \in d.userIdentity : TRUE).sessionContext =
          Some([attributes |-> Some([mfaAuthenticated |-> Some("true")])])

---------------------------------------------------------------------------
(* Claims *)

\* C1: a live ConsoleLogin envelope with an empty or absent errorMessage and
\* MFAUsed = "No" creates exactly one incident with scenario mfa_auth_failure,
\* failure_type mfa_not_enforced, severity HIGH and detection_source
\* cloudtrail, stores it, and returns mode detector, status created (unless
\* the put itself failed).
C1_SuccessWithoutMfaCreatesHighIncident ==
    (Handled /\ LiveEnvelope(event) /\ RuleB(event.detail.map) /\ ~Raised) =>
        /\ Created
        /\ response.statusCode = 200
        /\ response.body.mode = "detector"
        /\ Cardinality(PutCalls) = 1
        /\ response.body.incident_id \in DOMAIN store
        /\ StoredIncident.scenario = "mfa_auth_failure"
        /\ "failure_type" \in DOMAIN StoredIncident
        /\ StoredIncident.failure_type = "mfa_not_enforced"
        /\ StoredIncident.severity = "HIGH"
        /\ StoredIncident.detection_source = "cloudtrail"

\* C2: a live ConsoleLogin envelope with a non-empty errorMessage creates an
\* incident with scenario mfa_auth_failure, failure_type authentication_failed
\* and severity MEDIUM, whatever MFAUsed is.
C2_FailedLoginIsAuthenticationFailed ==
    (Handled /\ LiveEnvelope(event) /\ RuleA(event.detail.map) /\ ~Raised) =>
        /\ Created
        /\ response.body.incident_id \in DOMAIN store
        /\ StoredIncident.scenario = "mfa_auth_failure"
        /\ "failure_type" \in DOMAIN StoredIncident
        /\ StoredIncident.failure_type = "authentication_failed"
        /\ StoredIncident.severity = "MEDIUM"

\* C3: a live envelope matched by no ConsoleLogin rule, whose errorCode is
\* AccessDenied or UnauthorizedAccess and whose session is mfaAuthenticated =
\* "true", creates a policy_mismatch incident of severity MEDIUM whose
\* detection_signal carries the envelope's eventName, requestParameters,
\* errorCode and errorMessage.
C3_PolicyMismatch ==
    (/\ Handled /\ LiveEnvelope(event) /\ ~Raised
     /\ ~RuleA(event.detail.map) /\ ~RuleB(event.detail.map)
     /\ RuleC(event.detail.map)) =>
        /\ Created
        /\ response.body.scenario = "policy_mismatch"
        /\ response.body.incident_id \in DOMAIN store
        /\ StoredIncident.scenario = "policy_mismatch"
        /\ StoredIncident.severity = "MEDIUM"
        /\ StoredIncident.detection_signal.event_name =
              Get(event.detail.map.eventName, "")
        /\ StoredIncident.detection_signal.request_parameters =
              Get(event.detail.map.requestParameters, EmptyDict)
        /\ Some(StoredIncident.detection_signal.error_code) = event.detail.map.errorCode
        /\ StoredIncident.detection_signal.error_message =
              Get(event.detail.map.errorMessage, "")

C3_Witness ==
    /\ Handled /\ LiveEnvelope(event) /\ Created
    /\ ~RuleA(event.detail.map) /\ ~RuleB(event.detail.map)
    /\ RuleC(event.detail.map)
    /\ event.detail.map.errorCode = Some("UnauthorizedAccess")
    /\ event.detail.map.eventName = Some("GetObject")
    /\ event.detail.map.requestParameters # None
    /\ StoredIncident.detection_signal.error_code = "UnauthorizedAccess"

\* C4: a live envelope that matches none of the rules a, b, c returns status
\* no_match and creates no incident.
C4_NoPatternNoMatch ==
    (/\ Handled /\ LiveEnvelope(event)
     /\ ~RuleA(event.detail.map) /\ ~RuleB(event.detail.map)
     /\ ~RuleC(event.detail.map)) =>
        /\ NoMatch
        /\ response.statusCode = 200
        /\ PutCalls = {}
        /\ store = EmptyDict

\* one envelope in which both cases the claim names happen: a ConsoleLogin
\* without error message and without additionalEventData that also carries
\* AccessDenied without an MFA session
C4_Witness ==
    /\ Handled /\ LiveEnvelope(event) /\ NoMatch
    /\ event.detail.map.eventName = Some("ConsoleLogin")
    /\ event.detail.map.errorMessage = None
    /\ event.detail.map.additionalEventData = None
    /\ event.detail.map.errorCode = Some("AccessDenied")
    /\ event.detail.map.userIdentity # None
    /\ (CHOOSE i \in event.detail.map.userIdentity : TRUE).sessionContext = None

\* C5: whenever the classifier returns NoMatch the invocation leaves the
\* store, the notification count and the metric count unchanged, makes no
\* collaborator call, and returns 200 with mode detector, status no_match and
\* the envelope's raw eventName.
C5_NoMatchNoSideEffects ==
    [][ (/\ invocations' = invocations + 1
         /\ response'.kind = "returned"
         /\ "status" \in DOMAIN response'.body
         /\ response'.body.status = "no_match") =>
            /\ store' = store
            /\ sns_count' = sns_count
            /\ metric_count' = metric_count
            /\ calls' = <<>>
            /\ response'.statusCode = 200
            /\ response'.body.mode = "detector"
            /\ Some(response'.body.event_name) =
                  (IF event'.detail.map.eventName = None THEN Some("")
                   ELSE event'.detail.map.eventName) ]_vars

C5_Witness ==
    /\ Handled /\ NoMatch
    /\ event.detail.map.eventName = Some("GetObject")
    /\ response.body.event_name = "GetObject"

\* C6: the patterns are tried in the order a, b, c and the first match wins:
\* an envelope that satisfies a ConsoleLogin rule and rule c produces the
\* mfa_auth_failure incident, with at most one put, one notification and one
\* metric.
C6_ConsoleLoginBeforePolicy ==
    (/\ Handled /\ LiveEnvelope(event) /\ ~Raised
     /\ RuleA(event.detail.map) \/ RuleB(event.detail.map)
     /\ RuleC(event.detail.map)) =>
        /\ Created
        /\ response.body.scenario = "mfa_auth_failure"
        /\ Cardinality(PutCalls) <= 1
        /\ Cardinality(PublishCalls) <= 1
        /\ Cardinality(MetricCalls) <= 1

\* C7 as stated: a request is routed to the classifier iff its pattern-type
\* is non-empty and its detail is a mapping.
C7_RoutedIffNonEmptyPatternType ==
    (Handled /\ ~Raised) =>
        (("mode" \in DOMAIN response.body /\ response.body.mode = "detector")
            <=> LiveEnvelope(event))

\* C7 as amended: a request is routed to the classifier iff it carries a
\* pattern-type field, empty or not, and its detail is a mapping; every
\* other request takes the simulator path.
C7_RoutedIffPatternTypePresent ==
    (Handled /\ ~Raised) =>
        /\ ("mode" \in DOMAIN response.body /\ response.body.mode = "detector")
              <=> (event.detail_type # None /\ event.detail.kind = "mapping")
        /\ (\/ ("mode" \in DOMAIN response.body /\ response.body.mode = "simulator")
            \/ response.statusCode = 400)
              <=> (event.detail_type = None \/ event.detail.kind # "mapping")

C7_Witness ==
    /\ Handled /\ ~Raised
    /\ event.detail_type = Some("")
    /\ event.detail.kind = "mapping"
    /\ response.body.mode = "detector"

\* C8 as stated: a classifier incident's user is userName when present and
\* otherwise principalId, and is never the empty string; source_ip is
\* sourceIPAddress, or "unknown" when absent.
C8_UserNeverEmpty ==
    (Handled /\ Created /\ response.body.mode = "detector") =>
        LET identity == Get(event.detail.map.userIdentity,
                            [userName |-> None, principalId |-> None,
                             sessionContext |-> None])
        IN /\ identity.userName # None =>
                 Some(StoredIncident.user) = identity.userName
           /\ (identity.userName = None /\ identity.principalId # None) =>
                 Some(StoredIncident.user) = identity.principalId
           /\ StoredIncident.user # ""
           /\ StoredIncident.source_ip =
                 Get(event.detail.map.sourceIPAddress, "unknown")

\* C8 as amended: user is userName when present, otherwise principalId when
\* present, otherwise "unknown"; it is empty only when the field it was taken
\* from is the empty string; source_ip is sourceIPAddress, or "unknown" when
\* absent.
C8_UserFallback ==
    (Handled /\ Created /\ response.body.mode = "detector") =>
        LET identity == Get(event.detail.map.userIdentity,
                            [userName |-> None, principalId |-> None,
                             sessionContext |-> None])
        IN /\ identity.userName # None =>
                 Some(StoredIncident.user) = identity.userName
           /\ (identity.userName = None /\ identity.principalId # None) =>
                 Some(StoredIncident.user) = identity.principalId
           /\ (identity.userName = None /\ identity.principalId = None) =>
                 StoredIncident.user = "unknown"
           /\ StoredIncident.user = "" =>
                 \/ identity.userName = Some("")
                 \/ (identity.userName = None /\ identity.principalId = Some(""))
           /\ StoredIncident.source_ip =
                 Get(event.detail.map.sourceIPAddress, "unknown")

C8_Witness ==
    /\ Handled /\ Created /\ response.body.mode = "detector"
    /\ event.detail.map.userIdentity # None
    /\ (CHOOSE i \in event.detail.map.userIdentity : TRUE).userName = None
    /\ (CHOOSE i \in event.detail.map.userIdentity : TRUE).principalId
          = Some("AIDA123456789")
    /\ event.detail.map.sourceIPAddress = None
    /\ StoredIncident.user = "AIDA123456789"
    /\ StoredIncident.source_ip = "unknown"

\* C9: a simulator-mode request with a scenario outside mfa_auth_failure,
\* rate_limiting, policy_mismatch returns a 400 error that lists exactly those
\* three names, and makes no put, no notification and no metric.
C9_UnknownScenarioRejected ==
    (/\ Handled
     /\ event.detail_type = None \/ event.detail.kind # "mapping"
     /\ event.scenario # None
     /\ event.scenario \notin {Some("mfa_auth_failure"), Some("rate_limiting"),
                               Some("policy_mismatch")}) =>
        /\ response.kind = "returned"
        /\ response.statusCode = 400
        /\ "error" \in DOMAIN response.body
        /\ Len(response.body.valid_scenarios) = 3
        /\ { response.body.valid_scenarios[i] : i \in 1..3 } =
              {"mfa_auth_failure", "rate_limiting", "policy_mismatch"}
        /\ calls = <<>>
        /\ store = EmptyDict
        /\ sns_count = 0
        /\ metric_count = 0

C9_Witness ==
    /\ Handled
    /\ event.detail.kind = "absent"
    /\ event.scenario = Some("unknown_scenario")
    /\ response.kind = "returned"
    /\ response.statusCode = 400

ProcessedInStep(r, i) ==
    /\ runs[r].pc = "loop"
    /\ i \in runs[r].pending
    /\ runs'[r] # runs[r]
    /\ i \notin runs'[r].pending

\* the count of run r after a step: the loop counter, or the processed value
\* of the return when the step was the run's last
CountAfterStep(r) ==
    IF runs'[r].pc = "loop" THEN runs'[r].processed ELSE resolution'.body.processed

\* C11: the update to RESOLVED applies only while the stored status is OPEN:
\* when a run processes an incident that another run has already resolved,
\* the stored record (resolved_at and resolution_time_seconds included) stays
\* as first written, the attempt is not counted in processed, the run goes on
\* to its remaining incidents or returns 200, and no second resolution
\* notification or metric goes out.
C11_ResolvedExactlyOnce ==
    [][ \A r \in 1..MaxRuns : \A i \in runs[r].pending :
          (/\ ProcessedInStep(r, i)
           /\ i.incident_id \in DOMAIN store
           /\ store[i.incident_id].status = "RESOLVED") =>
              /\ store'[i.incident_id] = store[i.incident_id]
              /\ CountAfterStep(r) = runs[r].processed
              /\ sns_count' = sns_count
              /\ metric_count' = metric_count
              /\ runs'[r].pc = "idle" => resolution'.statusCode = 200 ]_vars

\* the stored incidents with scenario rate_limiting and status OPEN
OpenRateLimited(table) ==
    { table[k] : k \in { j \in DOMAIN table :
                          /\ "scenario" \in DOMAIN table[j]
                          /\ table[j].scenario = "rate_limiting"
                          /\ table[j].status = "OPEN" } }

\* the cooldown of a record: its cooldown_seconds, 300 when it has none
CooldownOf(i) == IF "cooldown_seconds" \in DOMAIN i THEN i.cooldown_seconds ELSE 300

\* C12 as stated: a run selects exactly the incidents with scenario
\* rate_limiting, status OPEN and now >= created_at + cooldown_seconds (300
\* when absent); an incident of age equal to its cooldown is selected, one of
\* age 400 with cooldown 300 is selected, one of age 200 is not.
C12_EligibleAtCooldown ==
    /\ get_eligible_incidents(store, now) =
          { i \in OpenRateLimited(store) : now >= i.created_at + CooldownOf(i) }
    /\ \A i \in OpenRateLimited(store) :
          /\ now - i.created_at = CooldownOf(i) => i \in get_eligible_incidents(store, now)
          /\ (now - i.created_at = 400 /\ CooldownOf(i) = 300) =>
                i \in get_eligible_incidents(store, now)
          /\ (now - i.created_at = 200 /\ CooldownOf(i) = 300) =>
                i \notin get_eligible_incidents(store, now)

\* C12 as amended: a run selects exactly the incidents with scenario
\* rate_limiting, status OPEN and now > created_at + cooldown_seconds (300
\* when absent): an incident of age 400 with cooldown 300 is selected, one
\* of age 200 is not, and one whose age equals its cooldown is not yet
\* selected; the set a run iterates over is the set so selected from the
\* table and the clock at the time of its scan.
C12_EligibleAfterCooldown ==
    /\ [](/\ get_eligible_incidents(store, now) =
                { i \in OpenRateLimited(store) : now > i.created_at + CooldownOf(i) }
          /\ \A i \in OpenRateLimited(store) :
                /\ now - i.created_at = CooldownOf(i) =>
                      i \notin get_eligible_incidents(store, now)
                /\ (now - i.created_at = 400 /\ CooldownOf(i) = 300) =>
                      i \in get_eligible_incidents(store, now)
                /\ (now - i.created_at = 200 /\ CooldownOf(i) = 300) =>
                      i \notin get_eligible_incidents(store, now))
    /\ [][ \A r \in 1..MaxRuns :
             (runs[r].pc = "idle" /\ runs'[r].pc = "loop") =>
                 runs'[r].eligible =
                    { i \in OpenRateLimited(store) : now > i.created_at + CooldownOf(i) }
         ]_vars

\* a run has scanned a table holding an incident of age 400 and one of age
\* 300, both OPEN with cooldown 300, and selected the first alone
C12_Witness ==
    \E r \in 1..MaxRuns :
        /\ runs[r].pc = "loop"
        /\ \E i \in OpenRateLimited(store), j \in OpenRateLimited(store) :
              /\ now - i.created_at = 400 /\ CooldownOf(i) = 300
              /\ now - j.created_at = 300 /\ CooldownOf(j) = 300
              /\ runs[r].eligible = {i}

\* the stored incidents the responder has resolved
ResolvedIncidents == { store[k] : k \in { j \in DOMAIN store : store[j].status = "RESOLVED" } }

\* the epoch second of an ISO-8601 instant
EpochOf(stamp) == stamp.iso

\* C13: every incident resolved by the responder has
\* resolution_time_seconds = epoch second of resolved_at - created_at,
\* exactly, and resolution_time_seconds >= 0.
C13_ResolutionTimeExact ==
    \A i \in ResolvedIncidents :
        /\ i.resolution_time_seconds = EpochOf(i.resolved_at) - i.created_at
        /\ i.resolution_time_seconds >= 0

\* C14: a record with auto_remediation = false is never transitioned by the
\* responder: every RESOLVED incident of the table has
\* auto_remediation = true, and every mfa_auth_failure or policy_mismatch
\* incident of the table is OPEN and without resolution fields.
C14_NoAutoRemediationNeverResolved ==
    \A k \in DOMAIN store :
        /\ store[k].status = "RESOLVED" =>
              /\ "auto_remediation" \in DOMAIN store[k]
              /\ store[k].auto_remediation = TRUE
        /\ ("auto_remediation" \in DOMAIN store[k] /\ store[k].auto_remediation = FALSE) =>
              /\ store[k].status = "OPEN"
              /\ "resolved_at" \notin DOMAIN store[k]
        /\ ("scenario" \in DOMAIN store[k]
              /\ store[k].scenario \in {"mfa_auth_failure", "policy_mismatch"}) =>
              /\ store[k].status = "OPEN"
              /\ store[k].auto_remediation = FALSE

\* a responder run has returned after resolving the one incident it found
\* eligible, of scenario rate_limiting, while an mfa_auth_failure incident
\* built by the classifier, 400 seconds old, is still OPEN
C14_Witness ==
    /\ resolution.kind = "returned"
    /\ resolution.body.processed = 1
    /\ resolution.body.total_eligible = 1
    /\ \E a \in DOMAIN store, b \in DOMAIN store :
          /\ store[a].scenario = "rate_limiting" /\ store[a].status = "RESOLVED"
          /\ store[b].scenario = "mfa_auth_failure" /\ store[b].status = "OPEN"
          /\ store[b].auto_remediation = FALSE
          /\ now - store[b].created_at = 400

\* the operations of the collaborator calls of the last invocation, in order
CallOps == [i \in 1..Len(calls) |-> calls[i].op]

\* C15: an invocation that built an incident calls the store first, then the
\* notification topic (when one is configured), then the metrics service,
\* all for the incident it returns as created; when the put fails it is the
\* only call made, the store and the notification and metric counts are
\* untouched, and the invocation raises instead of returning created.
C15_StoreThenNotifyThenMetric ==
    /\ Created =>
          /\ CallOps = IF Truthy(SNS_TOPIC_ARN)
                       THEN <<"dynamodb.put_item", "sns.publish",
                              "cloudwatch.put_metric_data">>
                       ELSE <<"dynamodb.put_item", "cloudwatch.put_metric_data">>
          /\ calls[1].ok
          /\ \A i \in 1..Len(calls) : calls[i].incident_id = response.body.incident_id
          /\ response.body.incident_id \in DOMAIN store
    /\ (Handled /\ calls # <<>>) =>
          /\ calls[1].op = "dynamodb.put_item"
          /\ calls[1].ok <=> Created
          /\ ~calls[1].ok <=> Raised
    /\ Raised =>
          /\ Len(calls) = 1
          /\ PublishCalls = {}
          /\ MetricCalls = {}
          /\ store = EmptyDict
          /\ sns_count = 0
          /\ metric_count = 0
          /\ ~Created

\* the put of an incident classified from a live AccessDenied envelope fails
\* with the topic configured: the one call made is the put, and the
\* invocation raises
C15_Witness ==
    /\ Handled /\ Raised
    /\ Truthy(SNS_TOPIC_ARN)
    /\ LiveEnvelope(event) /\ RuleC(event.detail.map)
    /\ CallOps = <<"dynamodb.put_item">>
    /\ calls[1].subject = "policy_mismatch"
    /\ store = EmptyDict

\* the calls of the last invocation to the topic or to the metrics service
\* that failed
FailedBestEffortCalls ==
    { i \in 1..Len(calls) :
        /\ calls[i].op \in {"sns.publish", "cloudwatch.put_metric_data"}
        /\ ~calls[i].ok }

\* C16: when the publish or the metric call of an invocation fails, the
\* incident it stored is still in the table, OPEN and under the returned
\* id, the metric call is still made after a failed publish, only accepted
\* calls are counted, and the invocation returns 200 with status created.
C16_NotifyMetricFailureSwallowed ==
    (Handled /\ FailedBestEffortCalls # {}) =>
        /\ Created
        /\ response.statusCode = 200
        /\ DOMAIN store = {response.body.incident_id}
        /\ StoredIncident.incident_id = response.body.incident_id
        /\ StoredIncident.scenario = response.body.scenario
        /\ StoredIncident.status = "OPEN"
        /\ Cardinality(MetricCalls) = 1
        /\ \A i \in PublishCalls : \A j \in MetricCalls : i < j
        /\ sns_count = Cardinality({ i \in PublishCalls : calls[i].ok })
        /\ metric_count = Cardinality({ j \in MetricCalls : calls[j].ok })

\* both the publish and the metric call of a simulated rate_limiting request
\* failed
C16_Witness ==
    /\ Handled /\ Created
    /\ event.scenario = Some("rate_limiting")
    /\ Len(calls) = 3
    /\ calls[2].op = "sns.publish" /\ ~calls[2].ok
    /\ calls[3].op = "cloudwatch.put_metric_data" /\ ~calls[3].ok
    /\ response.body.incident_id \in DOMAIN store
    /\ sns_count = 0 /\ metric_count = 0

\* what a step of run r on incident i must look like: the incident is taken
\* out of the pending set and counted exactly when its update was applied
\* and announced, the loop goes on while incidents are pending, and the
\* return after the last one reports the count and the size of the set
\* queried at the start
IsolatedIteration(r, i) ==
    LET done == CountAfterStep(r) - runs[r].processed
    IN /\ done \in {0, 1}
       /\ done = 1 =>
             /\ store'[i.incident_id].status = "RESOLVED"
             /\ sns_count' = sns_count + 1
             /\ metric_count' = metric_count + 1
       /\ done = 0 =>
             /\ store' = store
             /\ sns_count' = sns_count
             /\ metric_count' = metric_count
       /\ IF runs[r].pending = {i}
          THEN /\ runs'[r].pc = "idle"
               /\ resolution'.kind = "returned"
               /\ resolution'.statusCode = 200
               /\ resolution'.body.total_eligible = Cardinality(runs[r].eligible)
          ELSE /\ runs'[r].pc = "loop"
               /\ runs'[r].pending = runs[r].pending \ {i}
               /\ runs'[r].eligible = runs[r].eligible

\* the loop of every run: the set queried, the incidents still to process
\* and the count so far
LoopCounts ==
    \A r \in 1..MaxRuns :
        /\ runs[r].pending \subseteq runs[r].eligible
        /\ runs[r].processed + Cardinality(runs[r].pending) <= Cardinality(runs[r].eligible)
        /\ runs[r].pc = "loop" => runs[r].pending # {}

C18_FreshIncidentId ==
    [][ (/\ invocations' = invocations + 1
         /\ response'.kind = "returned"
         /\ "status" \in DOMAIN response'.body
         /\ response'.body.status = "created") =>
            /\ response'.body.incident_id \notin DOMAIN store
            /\ DOMAIN store' = DOMAIN store \cup {response'.body.incident_id}
            /\ \A k \in DOMAIN store : store'[k] = store[k] ]_vars

\* the uppercase hexadecimal digits
UpperHexDigits ==
    {"0", "1", "2", "3", "4", "5", "6", "7", "8", "9", "A", "B", "C", "D", "E", "F"}

\* the scenario-to-prefix table
PrefixOf(scenario) ==
    CASE scenario = "mfa_auth_failure" -> "MFA-AUTH"
      [] scenario = "rate_limiting" -> "RATE-LIMIT"
      [] scenario = "policy_mismatch" -> "POLICY"

\* the strings made of the prefix, a dash and eight uppercase hex digits that
\* the ids drawn in the model can form
WellFormedIds(prefix) ==
    { prefix \o "-" \o JoinChars(d) :
        d \in { c \in { [i \in 1..8 |-> UpperChar(u[i])] : u \in Uuid4Hex } :
                  \A i \in 1..8 : c[i] \in UpperHexDigits } }

\* C19: every stored incident is stored under its own incident_id, which is
\* the prefix of its scenario (MFA-AUTH, RATE-LIMIT, POLICY), a dash and
\* eight uppercase hexadecimal digits, whether the synthesizer or the
\* classifier built it.
C19_IdMatchesScenario ==
    \A k \in DOMAIN store :
        /\ store[k].incident_id = k
        /\ store[k].scenario \in {"mfa_auth_failure", "rate_limiting", "policy_mismatch"}
        /\ k \in WellFormedIds(PrefixOf(store[k].scenario))
        /\ store[k].detection_source \in {"simulator", "cloudtrail"}

\* a policy_mismatch incident built by the classifier is stored under an id
\* whose letters are those of the uuid, in upper case
C19_Witness ==
    /\ Handled /\ Created
    /\ response.body.mode = "detector"
    /\ DOMAIN store = {"POLICY-0A1B2C3D"}
    /\ store["POLICY-0A1B2C3D"].scenario = "policy_mismatch"
    /\ store["POLICY-0A1B2C3D"].detection_source = "cloudtrail"

\* C20: every stored incident has ttl = created_at + 604800 (7 days), as set
\* by its constructor, and no later operation on the incident, the
\* responder's resolution included, changes its ttl.
C20_TtlSevenDaysAfterCreation ==
    /\ [](\A k \in DOMAIN store : store[k].ttl = store[k].created_at + 604800)
    /\ [][ \A k \in DOMAIN store :
             invocations' = invocations =>
                 /\ k \in DOMAIN store'
                 /\ store'[k].ttl = store[k].ttl ]_vars

\* the last request took the simulator path
SimulatorPath == ~is_cloudtrail_event(event)

\* the metadata of the last request, {} when it has none
RequestMetadata == Get(event.metadata, NoMetadata)

\* C21: a simulator request with scenario rate_limiting stores an incident
\* with severity HIGH, auto_remediation true, remediation_type assisted and
\* cooldown_seconds 300, whatever its metadata holds (a cooldown_seconds of
\* its own included), and with detection_signal.failure_count and
\* window_seconds taken from the metadata, 5 and 60 when it omits them.
C21_RateLimitingSynthesis ==
    (/\ Handled /\ SimulatorPath /\ ~Raised
     /\ event.scenario = Some("rate_limiting")) =>
        /\ Created
        /\ response.statusCode = 200
        /\ response.body.scenario = "rate_limiting"
        /\ response.body.incident_id \in DOMAIN store
        /\ StoredIncident.scenario = "rate_limiting"
        /\ StoredIncident.severity = "HIGH"
        /\ StoredIncident.auto_remediation = TRUE
        /\ StoredIncident.remediation_type = "assisted"
        /\ StoredIncident.cooldown_seconds = 300
        /\ StoredIncident.detection_signal.failure_count =
              (IF RequestMetadata.failure_count = None THEN 5
               ELSE CHOOSE n \in RequestMetadata.failure_count : TRUE)
        /\ StoredIncident.detection_signal.window_seconds =
              (IF RequestMetadata.window_seconds = None THEN 60
               ELSE CHOOSE n \in RequestMetadata.window_seconds : TRUE)

\* a request whose metadata gives failure_count 7, no window_seconds and a
\* cooldown_seconds of 10
C21_Witness ==
    /\ Handled /\ Created /\ SimulatorPath
    /\ event.scenario = Some("rate_limiting")
    /\ event.metadata # None
    /\ RequestMetadata.failure_count = Some(7)
    /\ RequestMetadata.window_seconds = None
    /\ RequestMetadata.cooldown_seconds = Some(10)
    /\ StoredIncident.detection_signal.failure_count = 7
    /\ StoredIncident.detection_signal.window_seconds = 60
    /\ StoredIncident.cooldown_seconds = 300


\* the incidents of the table that the classifier built
ClassifierIncidents ==
    { store[k] : k \in { j \in DOMAIN store : store[j].detection_source = "cloudtrail" } }

\* C22: the incident stored for a live envelope has detection_source
\* cloudtrail; every such incident of the table has auto_remediation false
\* and no cooldown_seconds, is OPEN without resolution fields, and is in no
\* responder run's eligible set or pending work.
C22_ClassifierIncidentsNeverRemediated ==
    /\ (Handled /\ Created /\ is_cloudtrail_event(event)) =>
          /\ response.body.incident_id \in DOMAIN store
          /\ StoredIncident.detection_source = "cloudtrail"
          /\ StoredIncident.scenario \in {"mfa_auth_failure", "policy_mismatch"}
    /\ \A i \in ClassifierIncidents :
          /\ i.auto_remediation = FALSE
          /\ "cooldown_seconds" \notin DOMAIN i
          /\ i.status = "OPEN"
          /\ "resolved_at" \notin DOMAIN i
          /\ "resolution_time_seconds" \notin DOMAIN i
    /\ \A r \in 1..MaxRuns :
          \A i \in runs[r].eligible \cup runs[r].pending :
              /\ i.detection_source = "simulator"
              /\ i.scenario = "rate_limiting"

\* an mfa_auth_failure and a policy_mismatch incident built by the classifier
\* are 400 seconds old and still OPEN after a responder run returned with
\* nothing eligible
C22_Witness ==
    /\ resolution.kind = "returned"
    /\ resolution.body.processed = 0
    /\ \E a \in ClassifierIncidents, b \in ClassifierIncidents :
          /\ a.scenario = "mfa_auth_failure"
          /\ b.scenario = "policy_mismatch"
          /\ a.status = "OPEN" /\ b.status = "OPEN"
          /\ now - a.created_at = 400
          /\ now - b.created_at >= 300


\* a live envelope of a failed ConsoleLogin
ConsoleLoginFailure(ev) ==
    /\ is_cloudtrail_event(ev)
    /\ Get(ev.detail.map.eventName, "") = "ConsoleLogin"
    /\ Truthy(Get(ev.detail.map.errorMessage, ""))

\* the MFA-AUTH incidents of the table for the given user and source IP
BurstIncidents(user, source_ip) ==
    { k \in DOMAIN store :
        /\ store[k].scenario = "mfa_auth_failure"
        /\ store[k].detection_source = "cloudtrail"
        /\ store[k].user = user
        /\ store[k].source_ip = source_ip }

\* C23: every live ConsoleLogin-failure envelope whose put succeeds is
\* handled the same way whatever the table already holds for the same user
\* and source IP: the handler makes exactly one put, which succeeds, returns
\* created, leaves in the table an OPEN mfa_auth_failure incident of that
\* user under the id it returns, built with the clock of this invocation,
\* keeps every record stored under another id, and sends its notification
\* and metric again.
C23_OneIncidentPerEvent ==
    [][ (/\ invocations' = invocations + 1
         /\ ConsoleLoginFailure(event')
         /\ response'.kind = "returned") =>
            LET id == response'.body.incident_id
                puts == { i \in 1..Len(calls') : calls'[i].op = "dynamodb.put_item" }
            IN
            /\ response'.statusCode = 200
            /\ response'.body.status = "created"
            /\ response'.body.scenario = "mfa_auth_failure"
            /\ Cardinality(puts) = 1
            /\ \A i \in puts : calls'[i].ok /\ calls'[i].incident_id = id
            /\ DOMAIN store' = DOMAIN store \cup {id}
            /\ \A k \in DOMAIN store \ {id} : store'[k] = store[k]
            /\ store'[id].scenario = "mfa_auth_failure"
            /\ store'[id].status = "OPEN"
            /\ store'[id].user = extract_username(event'.detail.map)
            /\ store'[id].created_at \in now..(now + 1)
            /\ sns_count' = sns_count + (IF Truthy(SNS_TOPIC_ARN) THEN 1 ELSE 0)
            /\ metric_count' = metric_count + 1 ]_vars

\* two failed ConsoleLogin envelopes of finance-analyst-01 from the same
\* source IP have been handled and the table holds an incident for each
C23_Witness ==
    /\ invocations = 2
    /\ ConsoleLoginFailure(event)
    /\ Created
    /\ Cardinality(BurstIncidents("finance-analyst-01", "unknown")) = 2
    /\ metric_count = 2


\* the denied action of the last request, s3:GetObject when it gives none
RequestedAction ==
    Get(RequestMetadata.denied_action,
        <<"s","3",":","G","e","t","O","b","j","e","c","t">>)

\* the positions of the colons of a string
Colons(s) == { i \in 1..Len(s) : s[i] = ":" }

\* the text before the first colon
ServiceOf(s) ==
    LET first == CHOOSE i \in Colons(s) : \A j \in Colons(s) : i <= j
    IN JoinChars(SubSeq(s, 1, first - 1))

\* the text between the first colon and the second colon or the end
OperationOf(s) ==
    LET first == CHOOSE i \in Colons(s) : \A j \in Colons(s) : i <= j
        later == { i \in Colons(s) : i > first }
        stop == IF later = {} THEN Len(s) + 1
                ELSE CHOOSE i \in later : \A j \in later : i <= j
    IN JoinChars(SubSeq(s, first + 1, stop - 1))

\* what holds of every policy_mismatch incident the simulator stores
PolicyMismatchSynthesis ==
    /\ Created
    /\ response.body.incident_id \in DOMAIN store
    /\ StoredIncident.scenario = "policy_mismatch"
    /\ StoredIncident.severity = "MEDIUM"
    /\ StoredIncident.auto_remediation = FALSE
    /\ StoredIncident.detection_signal.attempted_action = JoinChars(RequestedAction)
    /\ StoredIncident.detection_signal.resource =
          Get(RequestMetadata.resource, "arn:aws:s3:::sensitive-bucket/*")

\* the last request is a simulator request for a policy_mismatch that was stored
PolicyMismatchRequest ==
    /\ Handled /\ SimulatorPath /\ ~Raised
    /\ event.scenario = Some("policy_mismatch")

\* C24 as stated: a denied action without ':' is reused whole as both the
\* event name and the event source of the detection signal.
C24_WholeStringReusedAsBoth ==
    PolicyMismatchRequest =>
        /\ PolicyMismatchSynthesis
        /\ Colons(RequestedAction) = {} =>
              /\ StoredIncident.detection_signal.event_name = JoinChars(RequestedAction)
              /\ StoredIncident.detection_signal.event_source = JoinChars(RequestedAction)

\* C24: a simulator request with scenario policy_mismatch stores an incident
\* with severity MEDIUM and auto_remediation false whose detection_signal
\* carries the denied action (metadata.denied_action, default s3:GetObject)
\* as attempted_action and metadata.resource or the sample ARN as resource;
\* when the denied action contains ':' the event name is the text between
\* its first and second ':' and the event source is the text before the
\* first ':' followed by .amazonaws.com; when it contains none the event
\* name is the whole string and the event source is aws.amazonaws.com.
C24_PolicyMismatchSynthesis ==
    PolicyMismatchRequest =>
        /\ PolicyMismatchSynthesis
        /\ Colons(RequestedAction) # {} =>
              /\ StoredIncident.detection_signal.event_name = OperationOf(RequestedAction)
              /\ StoredIncident.detection_signal.event_source =
                    ServiceOf(RequestedAction) \o ".amazonaws.com"
        /\ Colons(RequestedAction) = {} =>
              /\ StoredIncident.detection_signal.event_name = JoinChars(RequestedAction)
              /\ StoredIncident.detection_signal.event_source = "aws.amazonaws.com"

\* a request whose denied action is List, without ':', and that names a
\* resource of its own
C24_Witness ==
    /\ PolicyMismatchRequest
    /\ Created
    /\ RequestMetadata.denied_action = Some(<<"L","i","s","t">>)
    /\ RequestMetadata.resource # None
    /\ StoredIncident.detection_signal.event_name = "List"
    /\ StoredIncident.detection_signal.event_source = "aws.amazonaws.com"
    /\ StoredIncident.detection_signal.attempted_action = "List"


\* what the simulator path does with the last request: an incident built
\* from the request's fields, each absent field replaced by its default
SynthesizedWithDefaults ==
    LET scenario == IF event.scenario = None THEN "mfa_auth_failure"
                    ELSE CHOOSE s \in event.scenario : TRUE
        user == IF event.user = None THEN "test-user"
                ELSE CHOOSE s \in event.user : TRUE
        source_ip == IF event.source_ip = None THEN "192.0.2.1"
                     ELSE CHOOSE s \in event.source_ip : TRUE
    IN
    IF scenario \in {"mfa_auth_failure", "rate_limiting", "policy_mismatch"}
    THEN /\ Created
         /\ response.statusCode = 200
         /\ response.body.mode = "simulator"
         /\ response.body.scenario = scenario
         /\ DOMAIN store = {response.body.incident_id}
         /\ Cardinality(PutCalls) = 1
         /\ StoredIncident.scenario = scenario
         /\ StoredIncident.user = user
         /\ StoredIncident.source_ip = source_ip
         /\ StoredIncident.metadata = RequestMetadata
         /\ StoredIncident.detection_source = "simulator"
    ELSE /\ response.statusCode = 400
         /\ store = EmptyDict

\* the empty request and a request with a pattern-type and a scalar detail
BareRequests ==
    { NoEvent,
      [ NoEvent EXCEPT !.detail_type = Some("Something"),
                       !.detail = [kind |-> "scalar", value |-> "not a dict"] ] }

\* both bare requests are answered 200, simulator, created, with one
\* mfa_auth_failure incident of detection_source simulator stored
BareRequestsCreateDefaultIncident ==
    (Handled /\ ~Raised /\ event \in BareRequests) =>
        /\ Created
        /\ response.statusCode = 200
        /\ response.body.mode = "simulator"
        /\ Cardinality(DOMAIN store) = 1
        /\ StoredIncident.scenario = "mfa_auth_failure"
        /\ StoredIncident.user = "test-user"
        /\ StoredIncident.source_ip = "192.0.2.1"
        /\ StoredIncident.detection_source = "simulator"

\* C25 as stated: every request that is not a live envelope (a non-empty
\* pattern-type and a mapping detail) is synthesized with the defaults.
C25_NotLiveEnvelopeSynthesized ==
    /\ (Handled /\ ~Raised /\ ~LiveEnvelope(event)) => SynthesizedWithDefaults
    /\ BareRequestsCreateDefaultIncident

\* C25: a request without a pattern-type field, or whose detail is not a
\* mapping, is synthesized with the defaults scenario mfa_auth_failure, user
\* test-user, source_ip 192.0.2.1 and metadata {} for each absent field; the
\* empty request and a request with a pattern-type and a non-mapping detail
\* return 200, simulator, created and store one mfa_auth_failure incident
\* with detection_source simulator.
C25_SimulatorDefaults ==
    /\ (Handled /\ ~Raised /\ SimulatorPath) => SynthesizedWithDefaults
    /\ BareRequestsCreateDefaultIncident

\* a request with a pattern-type and a scalar detail and nothing else has
\* been stored as an mfa_auth_failure incident of test-user
C25_Witness ==
    /\ Handled /\ Created
    /\ event.detail_type = Some("Something")
    /\ event.detail.kind = "scalar"
    /\ event.scenario = None /\ event.user = None
    /\ event.source_ip = None /\ event.metadata = None
    /\ response.body.mode = "simulator"
    /\ StoredIncident.scenario = "mfa_auth_failure"
    /\ StoredIncident.user = "test-user"
    /\ StoredIncident.detection_source = "simulator"


\* the fields written at resolution
ResolutionFields == {"resolved_at", "resolution_time_seconds", "resolution_notes"}

\* C26: in every reachable state a stored incident has resolved_at,
\* resolution_time_seconds and resolution_notes if and only if its status is
\* RESOLVED (each of the three, and none of them while OPEN); an OPEN
\* rate_limiting incident has remediation_type assisted and a RESOLVED one
\* has remediation_type assisted_auto.
C26_ResolutionFieldsIffResolved ==
    \A k \in DOMAIN store :
        /\ store[k].status \in {"OPEN", "RESOLVED"}
        /\ store[k].status = "RESOLVED" => ResolutionFields \subseteq DOMAIN store[k]
        /\ store[k].status = "OPEN" => ResolutionFields \cap DOMAIN store[k] = {}
        /\ store[k].scenario = "rate_limiting" =>
              store[k].remediation_type =
                 IF store[k].status = "OPEN" THEN "assisted" ELSE "assisted_auto"

\* the table holds a RESOLVED rate_limiting incident with its resolution
\* fields next to an OPEN one without them
C26_Witness ==
    \E a \in DOMAIN store, b \in DOMAIN store :
        /\ store[a].scenario = "rate_limiting" /\ store[a].status = "RESOLVED"
        /\ store[a].remediation_type = "assisted_auto"
        /\ store[a].resolution_notes = ResolutionNotes
        /\ store[b].scenario = "rate_limiting" /\ store[b].status = "OPEN"
        /\ store[b].remediation_type = "assisted"
        /\ "resolved_at" \notin DOMAIN store[b]


\* the fields a resolution writes
ResolutionWrites ==
    {"status", "resolved_at", "resolution_time_seconds", "resolution_notes",
     "remediation_type"}

\* the fields the claim names as kept
KeptFields ==
    {"incident_id", "scenario", "severity", "created_at", "timestamp",
     "detection_source", "user", "source_ip", "cooldown_seconds", "ttl"}

\* C27: a responder step that changes the table changes one stored
\* incident, the one whose id the run is processing, and of it only status,
\* resolved_at, resolution_time_seconds, resolution_notes and
\* remediation_type: incident_id, scenario, severity, created_at, timestamp,
\* detection_source, user, source_ip, cooldown_seconds and ttl, and every
\* other field it had, are as before, and so is every other stored incident.
C27_ResolutionFrame ==
    [][ (invocations' = invocations /\ store' # store) =>
          /\ DOMAIN store' = DOMAIN store
          /\ \E r \in 1..MaxRuns : \E i \in runs[r].pending :
                LET k == i.incident_id IN
                /\ ProcessedInStep(r, i)
                /\ k \in DOMAIN store
                /\ \A j \in DOMAIN store \ {k} : store'[j] = store[j]
                /\ DOMAIN store'[k] = DOMAIN store[k] \cup ResolutionWrites
                /\ \A f \in DOMAIN store[k] \ ResolutionWrites :
                      store'[k][f] = store[k][f]
                /\ KeptFields \subseteq DOMAIN store[k]
                /\ \A f \in KeptFields : store'[k][f] = store[k][f]
                /\ store'[k].status = "RESOLVED" ]_vars

\* a rate_limiting incident has been resolved and still has the fields it
\* was created with, next to an OPEN incident the classifier built
C27_Witness ==
    \E a \in DOMAIN store, b \in DOMAIN store :
        /\ store[a].status = "RESOLVED"
        /\ store[a].incident_id = a
        /\ store[a].scenario = "rate_limiting"
        /\ store[a].severity = "HIGH"
        /\ store[a].detection_source = "simulator"
        /\ store[a].cooldown_seconds = DefaultCooldown
        /\ store[a].ttl = store[a].created_at + SevenDays
        /\ store[b].detection_source = "cloudtrail"
        /\ store[b].status = "OPEN"


\* the ids a rate_limiting incident can get
RateLimitIds == { incident_id_of("RATE-LIMIT", u) : u \in Uuid4Hex }

OpenAt(k) ==
    /\ k \in DOMAIN store
    /\ store[k].scenario = "rate_limiting"
    /\ store[k].status = "OPEN"

ResolvedAt(k) == k \in DOMAIN store /\ store[k].status = "RESOLVED"

\* C28: when responder runs recur for ever, the clock keeps advancing and
\* scans and updates eventually succeed, every stored rate_limiting incident
\* that is OPEN is eventually RESOLVED.
C28_OpenEventuallyResolved ==
    \A k \in RateLimitIds : OpenAt(k) ~> ResolvedAt(k)

\* two rate_limiting incidents created at 0 have both been resolved at 301
C28_Witness ==
    /\ now = DefaultCooldown + 1
    /\ \E k \in RateLimitIds : OpenAt(k) \/ ResolvedAt(k)
    /\ \A k \in RateLimitIds :
          /\ ResolvedAt(k)
          /\ store[k].created_at = 0
          /\ store[k].resolution_time_seconds = DefaultCooldown + 1


FailedQueryStep ==
    /\ resolution' # resolution
    /\ resolution'.query_errors # <<>>

\* C30: a responder invocation whose eligibility query fails treats the
\* eligible set as empty: it returns status code 200 with processed 0 and
\* the message of an empty set, raises nothing, changes no stored incident,
\* sends no resolution notification and no metric, and leaves no run in its
\* loop that was not there before.
C30_FailedQueryIsEmptyRun ==
    [][ FailedQueryStep =>
          /\ resolution'.kind = "returned"
          /\ resolution'.statusCode = 200
          /\ resolution'.body.processed = 0
          /\ resolution'.body.message = "No eligible incidents"
          /\ "total_eligible" \notin DOMAIN resolution'.body
          /\ store' = store
          /\ sns_count' = sns_count
          /\ metric_count' = metric_count
          /\ runs' = runs ]_vars

\* the last responder invocation returned processed 0 after its query
\* failed, while an OPEN rate_limiting incident 400 seconds old, which a
\* working query selects, is still in the table
C30_Witness ==
    /\ resolution.kind = "returned"
    /\ resolution.query_errors # <<>>
    /\ resolution.body.processed = 0
    /\ now = 400
    /\ get_eligible_incidents(store, now) # {}
    /\ \A r \in 1..MaxRuns : runs[r].pc = "idle"

====
